---------------------------- MODULE Spec2Model ----------------------------
(* A model of echo-stream (src/echo-stream.go): the /download and /upload  *)
(* handlers and the server lifecycle of main.  Sizes are counted in bytes  *)
(* and keep the values of the program's constants.                          *)
EXTENDS Integers, Sequences, FiniteSets, TLC

(***************************************************************************)
(* Program constants (src/echo-stream.go, const block, lines 17-24).       *)
(***************************************************************************)
DefaultBufferSize == 32 * 1024
MaxDownloadSize == 100 * 1024 * 1024
MaxUploadSize == 32 * 1024 * 1024
DefaultDownloadSize == 2 * 1024 * 1024

StatusOK == 200
StatusBadRequest == 400
StatusRequestEntityTooLarge == 413

(***************************************************************************)
(* Bounds of the model.                                                    *)
(***************************************************************************)
\* Concurrent /download requests of SpecConcurrent.
NumReqs == 2
\* Request sizes are drawn around k * DefaultBufferSize for k in 0..MaxChunks
\* (besides the program's own limits).
MaxChunks == 2
\* Connections the server accepts in one run of SpecServer.
MaxConns == 2

Reqs == 1 .. NumReqs

(***************************************************************************)
(* Strings are sequences of one-character strings, so that parsing and     *)
(* formatting are computed and not assumed.                                *)
(***************************************************************************)
Digits == <<"0", "1", "2", "3", "4", "5", "6", "7", "8", "9">>

IsDigit(c) == \E i \in 1 .. 10 : Digits[i] = c

DigitVal(c) == (CHOOSE i \in 1 .. 10 : Digits[i] = c) - 1

\* strconv.Itoa: decimal digits, most significant first, "-" before a
\* negative number.
RECURSIVE ItoaNat(_)
ItoaNat(n) ==
    IF n < 10 THEN <<Digits[n + 1]>>
    ELSE ItoaNat(n \div 10) \o <<Digits[(n % 10) + 1]>>

Itoa(n) == IF n < 0 THEN <<"-">> \o ItoaNat(0 - n) ELSE ItoaNat(n)

\* The digits of a 64-bit int: a longer run of significant digits is out of
\* range for strconv.Atoi (ErrRange).
MaxIntDigits == 19

RECURSIVE StripZeros(_)
StripZeros(s) ==
    IF Len(s) > 1 /\ Head(s) = "0" THEN StripZeros(Tail(s)) ELSE s

RECURSIVE DigitsVal(_, _)
DigitsVal(s, acc) ==
    IF s = <<>> THEN acc
    ELSE DigitsVal(Tail(s), acc * 10 + DigitVal(Head(s)))

\* strconv.Atoi: an optional sign followed by at least one decimal digit and
\* nothing else; anything else is a syntax error, a value that does not fit
\* an int a range error.
RECURSIVE DigitPrefix(_)
DigitPrefix(s) ==
    IF s = <<>> \/ ~IsDigit(Head(s)) THEN <<>>
    ELSE <<Head(s)>> \o DigitPrefix(Tail(s))

\* A lenient parse in the manner of C's atoi: the leading digits, 0 when
\* there are none, never an error.
AtoiLenient(s) ==
    LET signed == s # <<>> /\ Head(s) \in {"+", "-"}
        body   == DigitPrefix(IF signed THEN Tail(s) ELSE s)
    IN  IF Len(StripZeros(body)) > MaxIntDigits
        THEN [err |-> TRUE, val |-> 0]
        ELSE [err |-> FALSE,
              val |-> IF signed /\ Head(s) = "-"
                      THEN 0 - DigitsVal(body, 0) ELSE DigitsVal(body, 0)]

Atoi(s) ==
    LET signed == s # <<>> /\ Head(s) \in {"+", "-"}
        body   == IF signed THEN Tail(s) ELSE s
    IN  IF body = <<>> \/ \E i \in 1 .. Len(body) : ~IsDigit(body[i])
        THEN [err |-> TRUE, val |-> 0]
        ELSE IF Len(StripZeros(body)) > MaxIntDigits
        THEN [err |-> TRUE, val |-> 0]
        ELSE [err |-> FALSE,
              val |-> IF signed /\ Head(s) = "-"
                      THEN 0 - DigitsVal(body, 0) ELSE DigitsVal(body, 0)]

(***************************************************************************)
(* State.                                                                  *)
(***************************************************************************)
VARIABLES
    dl,     \* dl[r]: the downloadHandler invocation serving request r
    up,     \* the uploadHandler invocation
    srv,    \* the process: main, the listener goroutine, the connections
    hl,     \* the healthHandler invocation
    env     \* the environment of the process: the PORT variable

vars == <<dl, up, srv, hl, env>>

\* The query of a /download request: no size parameter, or its value.
Absent == [has |-> FALSE, val |-> <<>>]

Param(s) == [has |-> TRUE, val |-> s]

\* r.URL.Query().Get("size") (line 74): the value, empty when there is none.
QueryGet(q) == IF q.has THEN q.val ELSE <<>>

\* A download slot before its request arrives.
DlIdle ==
    [pc |-> "idle", query |-> Absent, sizeStr |-> <<>>, size |-> 0,
     status |-> 0, contentLength |-> <<>>, errBody |-> "",
     written |-> 0, toWrite |-> 0, wire |-> 0, flushed |-> 0,
     nwrites |-> 0, cancelled |-> FALSE, wireAtCancel |-> 0,
     writesAfterCancel |-> 0, fault |-> FALSE, outcome |-> "none",
     iters |-> 0, nchecks |-> 0, nflushes |-> 0]

\* The upload slot before its request arrives.
UpIdle ==
    [pc |-> "idle", bodyLen |-> 0, srcRead |-> 0, remaining |-> 0,
     bytesRead |-> 0, err |-> "none", faulted |-> FALSE,
     status |-> 0, body |-> ""]

\* The process after line 163: handlers registered, the server value built,
\* the signal channel made and registered, the listener goroutine not yet
\* started.  stop is the number of signals the channel holds, signalled
\* records that a signal was sent, addr is the port the listener is bound to.
SrvStart ==
    [main |-> "start", lis |-> "none", stop |-> 0, inShutdown |-> FALSE,
     active |-> 0, completed |-> 0, elapsed |-> 0,
     exited |-> FALSE, code |-> 0, cause |-> "none",
     sigWhileServing |-> FALSE, lateAccepts |-> 0, cutOff |-> 0,
     signalled |-> FALSE, addr |-> 0]

\* The health slot before its request arrives.
HlIdle ==
    [pc |-> "idle", method |-> "", cf |-> <<>>, xff |-> <<>>, xri |-> <<>>,
     remoteAddr |-> <<>>, clientIP |-> <<>>, contentType |-> "",
     status |-> 0, body |-> ""]

\* The PORT variable: not set, or set to a port number.
EnvUnset == [set |-> FALSE, port |-> 0]

\* Line 23: ServerPort = ":8080", as the port number.
ServerPort == 8080

Init ==
    /\ dl = [r \in Reqs |-> DlIdle]
    /\ up = UpIdle
    /\ srv = SrvStart
    /\ hl = HlIdle
    /\ env = EnvUnset

(***************************************************************************)
(* downloadHandler (lines 72-134).                                         *)
(***************************************************************************)
\* A request for /download arrives and is routed to the handler.
DownloadRequest(r, q) ==
    /\ dl[r].pc = "idle"
    /\ dl' = [dl EXCEPT ![r].pc = "parse", ![r].query = q]
    /\ UNCHANGED <<up, srv, hl, env>>

SizeStrNoDefault(q) == QueryGet(q)

\* Lines 74-77: the size parameter, or the default when it is empty.
SizeStr(q) ==
    IF QueryGet(q) = <<>> THEN Itoa(DefaultDownloadSize) ELSE QueryGet(q)

\* Lines 74-87: read and parse the size; a parse error answers 400.
ParseSize(r) ==
    /\ dl[r].pc = "parse"
    /\ LET s == SizeStr(dl[r].query)
           p == Atoi(s)
       IN  IF p.err
           THEN dl' = [dl EXCEPT ![r].sizeStr = s,
                                 ![r].status = StatusBadRequest,
                                 ![r].errBody = "invalid size parameter",
                                 ![r].outcome = "invalidSize",
                                 ![r].pc = "done"]
           ELSE dl' = [dl EXCEPT ![r].sizeStr = s,
                                 ![r].size = p.val,
                                 ![r].pc = "validate"]
    /\ UNCHANGED <<up, srv, hl, env>>

\* Line 90: the bounds of a size.
SizeOutOfBoundsExclusiveMax(size) == size <= 0 \/ size >= MaxDownloadSize

SizeOutOfBoundsZeroOk(size) == size < 0 \/ size > MaxDownloadSize

SizeOutOfBounds(size) == size <= 0 \/ size > MaxDownloadSize

\* Lines 89-94: a size out of bounds answers 400.
ValidateSize(r) ==
    /\ dl[r].pc = "validate"
    /\ IF SizeOutOfBounds(dl[r].size)
       THEN dl' = [dl EXCEPT ![r].status = StatusBadRequest,
                             ![r].errBody = "size must be between 1 and 104857600 bytes",
                             ![r].outcome = "outOfBounds",
                             ![r].pc = "done"]
       ELSE dl' = [dl EXCEPT ![r].pc = "headers"]
    /\ UNCHANGED <<up, srv, hl, env>>

\* Lines 96-101: the headers, the 200 status, the buffer and the counter.
WriteHeaders(r) ==
    /\ dl[r].pc = "headers"
    /\ dl' = [dl EXCEPT ![r].contentLength = Itoa(dl[r].size),
                        ![r].status = StatusOK,
                        ![r].written = 0,
                        ![r].pc = "loop"]
    /\ UNCHANGED <<up, srv, hl, env>>

\* Line 105: the loop condition; line 133 when it fails.
LoopTest(r) ==
    /\ dl[r].pc = "loop"
    /\ IF dl[r].written < dl[r].size
       THEN dl' = [dl EXCEPT ![r].pc = "select", ![r].iters = @ + 1]
       ELSE dl' = [dl EXCEPT ![r].pc = "done", ![r].outcome = "success"]
    /\ UNCHANGED <<up, srv, hl, env>>

CheckCancelIgnored(r) ==
    /\ dl[r].pc = "select"
    /\ dl' = [dl EXCEPT ![r].pc = "write", ![r].nchecks = @ + 1]
    /\ UNCHANGED <<up, srv, hl, env>>

\* A receive from Done() with no default case: it waits for the signal.
CheckCancelBlocking(r) ==
    /\ dl[r].pc = "select"
    /\ dl[r].cancelled
    /\ dl' = [dl EXCEPT ![r].pc = "done", ![r].nchecks = @ + 1,
                        ![r].outcome = "disconnected"]
    /\ UNCHANGED <<up, srv, hl, env>>

\* Lines 107-112: the non-blocking poll of the request context.
CheckCancel(r) ==
    /\ dl[r].pc = "select"
    /\ IF dl[r].cancelled
       THEN dl' = [dl EXCEPT ![r].pc = "done", ![r].nchecks = @ + 1,
                             ![r].outcome = "disconnected"]
       ELSE dl' = [dl EXCEPT ![r].pc = "write", ![r].nchecks = @ + 1]
    /\ UNCHANGED <<up, srv, hl, env>>

\* Lines 114-117: the length of the next chunk.
ToWriteFullChunk(size, written) == DefaultBufferSize

ToWrite(size, written) ==
    IF size - written < DefaultBufferSize THEN size - written
    ELSE DefaultBufferSize

\* What a failed Write may have put on the wire before it failed.
PartialWrites(n) == {0, n \div 2}

\* Lines 114-119, err = nil: the chunk is written.
WriteChunk(r) ==
    /\ dl[r].pc = "write"
    /\ LET n == ToWrite(dl[r].size, dl[r].written)
       IN  dl' = [dl EXCEPT ![r].toWrite = n,
                            ![r].wire = @ + n,
                            ![r].nwrites = @ + 1,
                            ![r].writesAfterCancel =
                                IF dl[r].cancelled THEN @ + 1 ELSE @,
                            ![r].pc = "flush"]
    /\ UNCHANGED <<up, srv, hl, env>>

\* A failed write that sends the handler round the loop again.
WriteFaultRetried(r) ==
    /\ dl[r].pc = "write"
    /\ LET n == ToWrite(dl[r].size, dl[r].written)
       IN  \E k \in PartialWrites(n) :
               dl' = [dl EXCEPT ![r].toWrite = n,
                                ![r].wire = @ + k,
                                ![r].fault = TRUE,
                                ![r].pc = "loop"]
    /\ UNCHANGED <<up, srv, hl, env>>

\* Lines 114-123, err # nil: the write fails and the handler returns.
WriteFault(r) ==
    /\ dl[r].pc = "write"
    /\ LET n == ToWrite(dl[r].size, dl[r].written)
       IN  \E k \in PartialWrites(n) :
               dl' = [dl EXCEPT ![r].toWrite = n,
                                ![r].wire = @ + k,
                                ![r].fault = TRUE,
                                ![r].outcome = "writeError",
                                ![r].pc = "done"]
    /\ UNCHANGED <<up, srv, hl, env>>

\* A response writer taken not to be a Flusher: nothing is flushed.
FlushSkipped(r) ==
    /\ dl[r].pc = "flush"
    /\ dl' = [dl EXCEPT ![r].pc = "advance"]
    /\ UNCHANGED <<up, srv, hl, env>>

\* Lines 125-128: flush what was written.  The response writer of net/http
\* that main's server passes to the handler is a Flusher.
Flush(r) ==
    /\ dl[r].pc = "flush"
    /\ dl' = [dl EXCEPT ![r].flushed = dl[r].wire, ![r].nflushes = @ + 1,
                        ![r].pc = "advance"]
    /\ UNCHANGED <<up, srv, hl, env>>

\* The counter as a variable shared by the handlers that are streaming.
AdvanceShared(r) ==
    /\ dl[r].pc = "advance"
    /\ dl' = [s \in Reqs |->
                IF s = r
                THEN [dl[s] EXCEPT !.written = @ + dl[r].toWrite, !.pc = "loop"]
                ELSE IF dl[s].status = StatusOK /\ dl[s].pc # "done"
                THEN [dl[s] EXCEPT !.written = @ + dl[r].toWrite]
                ELSE dl[s]]
    /\ UNCHANGED <<up, srv, hl, env>>

\* The counter advanced by the buffer's length, not the chunk's.
AdvanceFullBuffer(r) ==
    /\ dl[r].pc = "advance"
    /\ dl' = [dl EXCEPT ![r].written = @ + DefaultBufferSize, ![r].pc = "loop"]
    /\ UNCHANGED <<up, srv, hl, env>>

\* Line 130: advance the counter.
Advance(r) ==
    /\ dl[r].pc = "advance"
    /\ dl' = [dl EXCEPT ![r].written = @ + dl[r].toWrite, ![r].pc = "loop"]
    /\ UNCHANGED <<up, srv, hl, env>>

\* The request context becomes done (the client disconnects) while the
\* handler runs.
Cancel(r) ==
    /\ dl[r].pc \notin {"idle", "done"}
    /\ ~dl[r].cancelled
    /\ dl' = [dl EXCEPT ![r].cancelled = TRUE, ![r].wireAtCancel = dl[r].wire]
    /\ UNCHANGED <<up, srv, hl, env>>

\* The steps of the handler itself; the outcome of a Write is the response
\* writer's.
HandlerStep(r) ==
    \/ ParseSize(r)
    \/ ValidateSize(r)
    \/ WriteHeaders(r)
    \/ LoopTest(r)
    \/ CheckCancel(r)
    \/ WriteChunk(r)
    \/ WriteFault(r)
    \/ Flush(r)
    \/ Advance(r)

DownloadStep(r) ==
    \/ HandlerStep(r)
    \/ Cancel(r)

(***************************************************************************)
(* Inputs.                                                                 *)
(***************************************************************************)
\* Sizes around the chunk boundaries, the default and the maximum.
SizeValues ==
    {k * DefaultBufferSize + d : k \in 0 .. MaxChunks, d \in {0 - 1, 0, 1}}
        \cup {DefaultDownloadSize, MaxDownloadSize, MaxDownloadSize + 1}

\* The integer each well-formed size parameter stands for.
SizeParams == {<<v, Itoa(v)>> : v \in SizeValues}

BadParams ==
    { <<"a", "b", "c">>, <<"1", "2", "a">>, <<"1", ".", "5">>, <<" ", "5">>,
      <<"-">>, <<"+">>, <<"1", "e", "3">>,
      <<"9", "9", "9", "9", "9", "9", "9", "9", "9", "9",
        "9", "9", "9", "9", "9", "9", "9", "9", "9", "9">> }

Queries ==
    {Absent, Param(<<>>)} \cup {Param(p[2]) : p \in SizeParams}
        \cup {Param(s) : s \in BadParams}

\* One download at a time, over every input.
NextDownload ==
    \/ \E q \in Queries : DownloadRequest(1, q)
    \/ DownloadStep(1)

SpecDownload == Init /\ [][NextDownload]_vars

\* The handler's goroutine keeps being scheduled and every Write returns
\* (the server's WriteTimeout bounds it).
SpecDownloadFair == SpecDownload /\ WF_vars(HandlerStep(1))

\* Several downloads at once, each handler in its own goroutine, with sizes
\* of one chunk and of two.
ConcSizes == {1, DefaultBufferSize + 1}

ConcQueries == {Param(Itoa(v)) : v \in ConcSizes}

NextConcurrent ==
    \E r \in Reqs :
        \/ \E q \in ConcQueries : DownloadRequest(r, q)
        \/ DownloadStep(r)

SpecConcurrent == Init /\ [][NextConcurrent]_vars

(***************************************************************************)
(* uploadHandler (lines 49-70).  The body is read through                  *)
(* http.MaxBytesReader by io.Copy into io.Discard, one buffer at a time.   *)
(***************************************************************************)
\* The buffer io.Discard reads into.
CopyBufSize == 8192

UploadRequestNoLimit(len) ==
    /\ up.pc = "idle"
    /\ up' = [up EXCEPT !.pc = "copy", !.bodyLen = len,
                        !.remaining = MaxUploadSize + CopyBufSize * (MaxChunks + 2)]
    /\ UNCHANGED <<dl, srv, hl, env>>

\* Lines 49-57: a request for /upload arrives with a body of len bytes and
\* the body is wrapped in a reader limited to MaxUploadSize.
UploadRequest(len) ==
    /\ up.pc = "idle"
    /\ up' = [up EXCEPT !.pc = "copy", !.bodyLen = len,
                        !.remaining = MaxUploadSize]
    /\ UNCHANGED <<dl, srv, hl, env>>

\* MaxBytesReader: the buffer handed to the body is cut to one byte more
\* than what may still be read.
ReadLimit(remaining) ==
    IF CopyBufSize - 1 > remaining THEN remaining + 1 ELSE CopyBufSize

\* MaxBytesReader: a read that returns more than what may still be read
\* shows the body to be too large.
ExceedsLimitInclusive(k, remaining) == k >= remaining

ExceedsLimit(k, remaining) == k > remaining

\* What one read of the body may return when avail bytes are left of it
\* and the buffer holds plen: all that fits, or a short read.
ReadSizes(plen, avail) ==
    LET full == IF avail < plen THEN avail ELSE plen
    IN  {full, IF full \div 2 < 1 THEN 1 ELSE full \div 2}

\* Line 60, one read of io.Copy that returns k > 0 bytes of the body.
UploadReadData ==
    /\ up.pc = "copy"
    /\ up.srcRead < up.bodyLen
    /\ \E k \in ReadSizes(ReadLimit(up.remaining), up.bodyLen - up.srcRead) :
           IF ExceedsLimit(k, up.remaining)
           THEN up' = [up EXCEPT !.srcRead = @ + k,
                                 !.bytesRead = @ + up.remaining,
                                 !.remaining = 0,
                                 !.err = "tooLarge",
                                 !.pc = "respond"]
           ELSE up' = [up EXCEPT !.srcRead = @ + k,
                                 !.bytesRead = @ + k,
                                 !.remaining = @ - k]
    /\ UNCHANGED <<dl, srv, hl, env>>

\* Line 60, the read that finds the end of the body: io.Copy returns nil.
UploadReadEOF ==
    /\ up.pc = "copy"
    /\ up.srcRead = up.bodyLen
    /\ up' = [up EXCEPT !.pc = "respond"]
    /\ UNCHANGED <<dl, srv, hl, env>>

\* Line 60, a read that fails: io.Copy returns the error.
UploadReadFault ==
    /\ up.pc = "copy"
    /\ up' = [up EXCEPT !.err = "fault", !.faulted = TRUE, !.pc = "respond"]
    /\ UNCHANGED <<dl, srv, hl, env>>

UploadRespondAlwaysOk ==
    /\ up.pc = "respond"
    /\ up' = [up EXCEPT !.status = StatusOK, !.body = "ok", !.pc = "done"]
    /\ UNCHANGED <<dl, srv, hl, env>>

\* Lines 61-69: 413 when io.Copy returned an error, 200 and "ok" otherwise.
UploadRespond ==
    /\ up.pc = "respond"
    /\ IF up.err # "none"
       THEN up' = [up EXCEPT !.status = StatusRequestEntityTooLarge,
                             !.body = "Request too large or processing error",
                             !.pc = "done"]
       ELSE up' = [up EXCEPT !.status = StatusOK, !.body = "ok", !.pc = "done"]
    /\ UNCHANGED <<dl, srv, hl, env>>

\* The upload limit the README states (Security Features): 10MB.
ReadmeUploadLimit == 10 * 1024 * 1024

\* Body lengths: empty, short, just over the README's limit, and around the
\* limit of the code.
UploadLens ==
    {0, 1, CopyBufSize + 1, ReadmeUploadLimit + 1}
        \cup {MaxUploadSize + d : d \in {0 - 1, 0, 1}}
        \cup {MaxUploadSize + k * CopyBufSize : k \in 1 .. MaxChunks}

NextUpload ==
    \/ \E len \in UploadLens : UploadRequest(len)
    \/ UploadReadData
    \/ UploadReadEOF
    \/ UploadReadFault
    \/ UploadRespond

SpecUpload == Init /\ [][NextUpload]_vars

(***************************************************************************)
(* main (lines 146-185): the listener goroutine, the wait for a signal,    *)
(* and server.Shutdown under a 5 second deadline.  Time is counted in      *)
(* seconds from the creation of the shutdown context.                      *)
(***************************************************************************)
\* Line 177: the grace period, in seconds.
GraceSeconds == 5

\* SIGINT or SIGTERM is delivered: signal.Notify sends to the channel of
\* capacity 1 (lines 162-163) without blocking, so a signal that finds the
\* channel full is dropped.
SignalUnbuffered ==
    /\ ~srv.exited
    /\ srv.stop = 0
    /\ srv' = [srv EXCEPT !.stop = IF srv.main = "wait" THEN 1 ELSE 0,
                          !.signalled = TRUE]
    /\ UNCHANGED <<dl, up, hl, env>>

Signal ==
    /\ ~srv.exited
    /\ srv.stop = 0
    /\ srv' = [srv EXCEPT !.stop = 1, !.signalled = TRUE]
    /\ UNCHANGED <<dl, up, hl, env>>

\* Lines 165-172: main logs, starts the listener goroutine and goes on to
\* the receive of line 174.
MainStartListener ==
    /\ ~srv.exited
    /\ srv.main = "start"
    /\ srv' = [srv EXCEPT !.main = "wait", !.lis = "init"]
    /\ UNCHANGED <<dl, up, hl, env>>

\* Lines 154 and 169: ListenAndServe binds server.Addr, which is ServerPort,
\* and serves.
ListenOk ==
    /\ ~srv.exited
    /\ srv.lis = "init" /\ ~srv.inShutdown
    /\ srv' = [srv EXCEPT !.lis = "serving", !.addr = ServerPort]
    /\ UNCHANGED <<dl, up, hl, env>>

ListenFailIgnored ==
    /\ ~srv.exited
    /\ srv.lis = "init" /\ ~srv.inShutdown
    /\ srv' = [srv EXCEPT !.lis = "failed"]
    /\ UNCHANGED <<dl, up, hl, env>>

\* Lines 169-171: ListenAndServe fails to bind; log.Fatalf ends the process
\* with status 1.
ListenFail ==
    /\ ~srv.exited
    /\ srv.lis = "init" /\ ~srv.inShutdown
    /\ srv' = [srv EXCEPT !.lis = "failed", !.exited = TRUE, !.code = 1,
                          !.cause = "bindFailure", !.cutOff = srv.active]
    /\ UNCHANGED <<dl, up, hl, env>>

\* The server-closed return taken for a failure to start.
ListenAfterShutdownFatal ==
    /\ ~srv.exited
    /\ srv.lis = "init" /\ srv.inShutdown
    /\ srv' = [srv EXCEPT !.lis = "closed", !.exited = TRUE, !.code = 1,
                          !.cause = "bindFailure", !.cutOff = srv.active]
    /\ UNCHANGED <<dl, up, hl, env>>

\* Line 169: ListenAndServe called after Shutdown returns ErrServerClosed,
\* which is not fatal; the goroutine ends.
ListenAfterShutdown ==
    /\ ~srv.exited
    /\ srv.lis = "init" /\ srv.inShutdown
    /\ srv' = [srv EXCEPT !.lis = "closed"]
    /\ UNCHANGED <<dl, up, hl, env>>

\* The listener accepts a connection and its request is dispatched.
Accept ==
    /\ ~srv.exited
    /\ srv.lis = "serving"
    /\ srv.active + srv.completed < MaxConns
    /\ srv' = [srv EXCEPT !.active = @ + 1,
                          !.lateAccepts = IF srv.inShutdown THEN @ + 1 ELSE @]
    /\ UNCHANGED <<dl, up, hl, env>>

\* The handler of an in-flight request returns; its connection is idle.
Finish ==
    /\ ~srv.exited
    /\ srv.active > 0
    /\ srv' = [srv EXCEPT !.active = @ - 1, !.completed = @ + 1]
    /\ UNCHANGED <<dl, up, hl, env>>

\* Lines 174-178: main receives the signal and creates the context with the
\* 5 second deadline.
MainRecv ==
    /\ ~srv.exited
    /\ srv.main = "wait" /\ srv.stop = 1
    /\ srv' = [srv EXCEPT !.main = "shutdown", !.stop = 0, !.elapsed = 0,
                          !.sigWhileServing = (srv.lis = "serving")]
    /\ UNCHANGED <<dl, up, hl, env>>

ShutdownBeginKeepsListening ==
    /\ ~srv.exited
    /\ srv.main = "shutdown"
    /\ srv' = [srv EXCEPT !.main = "poll", !.inShutdown = TRUE]
    /\ UNCHANGED <<dl, up, hl, env>>

\* Line 180, server.Shutdown: the server is marked as shutting down and its
\* listeners are closed; ListenAndServe returns ErrServerClosed, which line
\* 169 does not treat as fatal.
ShutdownBegin ==
    /\ ~srv.exited
    /\ srv.main = "shutdown"
    /\ srv' = [srv EXCEPT !.main = "poll", !.inShutdown = TRUE,
                          !.lis = IF @ = "serving" THEN "closed" ELSE @]
    /\ UNCHANGED <<dl, up, hl, env>>

ShutdownPollNoWait ==
    /\ ~srv.exited
    /\ srv.main = "poll"
    /\ srv' = [srv EXCEPT !.main = "exited", !.exited = TRUE, !.code = 0,
                          !.cause = "graceful", !.cutOff = srv.active]
    /\ UNCHANGED <<dl, up, hl, env>>

\* Lines 180-185, server.Shutdown: idle connections are closed; with no
\* request in flight Shutdown returns nil and main returns (status 0),
\* otherwise it waits for its poll timer or the deadline.
ShutdownPoll ==
    /\ ~srv.exited
    /\ srv.main = "poll"
    /\ IF srv.active = 0
       THEN srv' = [srv EXCEPT !.main = "exited", !.exited = TRUE, !.code = 0,
                               !.cause = "graceful", !.cutOff = 0]
       ELSE srv' = [srv EXCEPT !.main = "select"]
    /\ UNCHANGED <<dl, up, hl, env>>

\* server.Shutdown: the poll timer fires.
ShutdownTimer ==
    /\ ~srv.exited
    /\ srv.main = "select"
    /\ srv' = [srv EXCEPT !.main = "poll"]
    /\ UNCHANGED <<dl, up, hl, env>>

\* Lines 180-182: the deadline passes, Shutdown returns the context's error
\* and log.Fatalf ends the process with status 1, in-flight requests with it.
ShutdownDeadline ==
    /\ ~srv.exited
    /\ srv.main = "select" /\ srv.elapsed = GraceSeconds
    /\ srv' = [srv EXCEPT !.main = "exited", !.exited = TRUE, !.code = 1,
                          !.cause = "shutdownTimeout", !.cutOff = srv.active]
    /\ UNCHANGED <<dl, up, hl, env>>

\* A second passes on the shutdown context's clock.
Tick ==
    /\ ~srv.exited
    /\ srv.main \in {"shutdown", "poll", "select"}
    /\ srv.elapsed < GraceSeconds
    /\ srv' = [srv EXCEPT !.elapsed = @ + 1]
    /\ UNCHANGED <<dl, up, hl, env>>

NextServer ==
    \/ Signal
    \/ MainStartListener
    \/ ListenOk
    \/ ListenFail
    \/ ListenAfterShutdown
    \/ Accept
    \/ Finish
    \/ MainRecv
    \/ ShutdownBegin
    \/ ShutdownPoll
    \/ ShutdownTimer
    \/ ShutdownDeadline
    \/ Tick

SpecServer == Init /\ [][NextServer]_vars

\* The environments the process can be started in: PORT not set, set to
\* the port of the code, set to another port.
EnvValues ==
    {EnvUnset} \cup {[set |-> TRUE, port |-> ServerPort + d] : d \in {0, 1}}

InitEnv ==
    /\ dl = [r \in Reqs |-> DlIdle]
    /\ up = UpIdle
    /\ srv = SrvStart
    /\ hl = HlIdle
    /\ env \in EnvValues

SpecServerEnv == InitEnv /\ [][NextServer]_vars

\* The main goroutine is scheduled: it starts the listener goroutine and
\* its receive from the signal channel completes when the channel holds a
\* signal.
SpecServerFair ==
    SpecServer /\ WF_vars(MainStartListener) /\ WF_vars(MainRecv)

\* The lifecycle state of section 4.5 that a state of the process is in.
LifecycleOf(s) ==
    IF s.exited THEN "Stopped"
    ELSE IF s.main \in {"shutdown", "poll", "select"} THEN "ShuttingDown"
    ELSE IF s.lis = "serving" THEN "Serving"
    ELSE "Starting"

(***************************************************************************)
(* getClientIP (lines 26-47), with the string functions it calls.          *)
(***************************************************************************)
\* The first index of character c in s, 0 when there is none.
IndexByte(s, c) ==
    IF \E i \in 1 .. Len(s) : s[i] = c
    THEN CHOOSE i \in 1 .. Len(s) : s[i] = c /\ \A j \in 1 .. i - 1 : s[j] # c
    ELSE 0

\* The last index of character c in s, 0 when there is none.
LastIndexByte(s, c) ==
    IF \E i \in 1 .. Len(s) : s[i] = c
    THEN CHOOSE i \in 1 .. Len(s) :
             s[i] = c /\ \A j \in i + 1 .. Len(s) : s[j] # c
    ELSE 0

\* strings.Split(s, sep) for a separator of one character.
RECURSIVE Split(_, _)
Split(s, sep) ==
    LET i == IndexByte(s, sep)
    IN  IF i = 0 THEN <<s>>
        ELSE <<SubSeq(s, 1, i - 1)>> \o Split(SubSeq(s, i + 1, Len(s)), sep)

\* The white space a header value can hold.
WhiteSpace == {" ", "\t"}

RECURSIVE TrimLeft(_)
TrimLeft(s) ==
    IF s # <<>> /\ Head(s) \in WhiteSpace THEN TrimLeft(Tail(s)) ELSE s

RECURSIVE TrimRight(_)
TrimRight(s) ==
    IF s # <<>> /\ s[Len(s)] \in WhiteSpace
    THEN TrimRight(SubSeq(s, 1, Len(s) - 1)) ELSE s

\* strings.TrimSpace.
TrimSpace(s) == TrimRight(TrimLeft(s))

\* net.SplitHostPort: "host:port" or "[host]:port"; an error when there is
\* no port, a colon in an unbracketed host, or a stray bracket.
SplitHostPort(hp) ==
    LET i    == LastIndexByte(hp, ":")
        fail == [err |-> TRUE, host |-> <<>>, port |-> <<>>]
    IN  IF i = 0 THEN fail
        ELSE IF hp[1] = "["
        THEN LET end == IndexByte(hp, "]")
             IN  IF end = 0 \/ end + 1 # i THEN fail
                 ELSE IF IndexByte(SubSeq(hp, 2, Len(hp)), "[") # 0 THEN fail
                 ELSE IF IndexByte(SubSeq(hp, end + 1, Len(hp)), "]") # 0
                 THEN fail
                 ELSE [err |-> FALSE, host |-> SubSeq(hp, 2, end - 1),
                       port |-> SubSeq(hp, i + 1, Len(hp))]
        ELSE IF IndexByte(SubSeq(hp, 1, i - 1), ":") # 0 THEN fail
        ELSE IF IndexByte(hp, "[") # 0 \/ IndexByte(hp, "]") # 0 THEN fail
        ELSE [err |-> FALSE, host |-> SubSeq(hp, 1, i - 1),
              port |-> SubSeq(hp, i + 1, Len(hp))]

\* The forwarded-for header consulted before the CDN header.
getClientIPForwardedFirst(cf, xff, xri, remoteAddr) ==
    IF xff # <<>> THEN TrimSpace(Split(xff, ",")[1])
    ELSE IF cf # <<>> THEN cf
    ELSE IF xri # <<>> THEN xri
    ELSE LET hp == SplitHostPort(remoteAddr)
         IN  IF hp.err THEN remoteAddr ELSE hp.host

\* Lines 27-47.  Header.Get gives "" for a header that is absent, so a
\* header is the sequence of its value, empty when absent.
getClientIP(cf, xff, xri, remoteAddr) ==
    IF cf # <<>> THEN cf
    ELSE IF xff # <<>> THEN TrimSpace(Split(xff, ",")[1])
    ELSE IF xri # <<>> THEN xri
    ELSE LET hp == SplitHostPort(remoteAddr)
         IN  IF hp.err THEN remoteAddr ELSE hp.host

(***************************************************************************)
(* healthHandler (lines 136-144).                                          *)
(***************************************************************************)
\* A request for /health arrives: any method, any headers.
HealthRequest(m, cf, xff, xri, ra) ==
    /\ hl.pc = "idle"
    /\ hl' = [hl EXCEPT !.pc = "log", !.method = m, !.cf = cf, !.xff = xff,
                        !.xri = xri, !.remoteAddr = ra]
    /\ UNCHANGED <<dl, up, srv, env>>

\* Lines 137-139: the client address is resolved and logged.
HealthLog ==
    /\ hl.pc = "log"
    /\ hl' = [hl EXCEPT !.clientIP =
                            getClientIP(hl.cf, hl.xff, hl.xri, hl.remoteAddr),
                        !.pc = "respond"]
    /\ UNCHANGED <<dl, up, srv, env>>

HealthRespondGetOnly ==
    /\ hl.pc = "respond"
    /\ IF hl.method = "GET"
       THEN hl' = [hl EXCEPT !.contentType = "text/plain",
                             !.status = StatusOK, !.body = "healthy",
                             !.pc = "done"]
       ELSE hl' = [hl EXCEPT !.status = 405, !.pc = "done"]
    /\ UNCHANGED <<dl, up, srv, env>>

\* Lines 141-143: the fixed answer.
HealthRespond ==
    /\ hl.pc = "respond"
    /\ hl' = [hl EXCEPT !.contentType = "text/plain", !.status = StatusOK,
                        !.body = "healthy", !.pc = "done"]
    /\ UNCHANGED <<dl, up, srv, env>>

\* Inputs: methods, and header values as character sequences.
Methods == {"GET", "HEAD", "POST", "DELETE"}

AddrA == <<"1", ".", "2">>
AddrB == <<"5", ".", "6">>
AddrC == <<"9", ".", "9">>
AddrD == <<"7", ".", "7">>

CfValues == {<<>>, AddrA}

XffValues ==
    { <<>>, AddrB, AddrB \o <<",", " ">> \o AddrC,
      <<" ">> \o AddrB \o <<"\t", ",">> \o AddrC,
      <<",">> \o AddrB, <<" ">> }

XriValues == {<<>>, AddrD}

RemoteAddrs ==
    { AddrC \o <<":", "8", "0">>,
      <<"[", ":", ":", "1", "]", ":", "8", "0">>,
      <<":", ":", "1">>, <<"h", "o", "s", "t">>,
      <<"[", ":", ":", "1", "]">>, <<"a", "]", ":", "8", "0">>,
      AddrC \o <<":">>, <<>> }

NextHealth ==
    \/ \E m \in Methods, cf \in CfValues, xff \in XffValues,
          xri \in XriValues, ra \in RemoteAddrs :
              HealthRequest(m, cf, xff, xri, ra)
    \/ HealthLog
    \/ HealthRespond

SpecHealth == Init /\ [][NextHealth]_vars

(***************************************************************************)
(* Properties of one download.                                             *)
(***************************************************************************)
\* The states of a handler that has validated its size.
Streaming(r) ==
    dl[r].pc \in {"headers", "loop", "select", "write", "flush", "advance"}
        \/ dl[r].status = StatusOK

\* C1: a request whose size parameter is an integer in (0, MaxDownloadSize]
\* and that meets no cancellation and no write fault has, when the handler
\* returns, status 200, a Content-Length that is that integer in decimal,
\* and exactly that many body bytes written.
C1_ExactByteCount ==
    \A r \in Reqs : \A p \in SizeParams :
        (/\ dl[r].query = Param(p[2])
         /\ p[1] > 0 /\ p[1] <= MaxDownloadSize
         /\ dl[r].pc = "done" /\ ~dl[r].cancelled /\ ~dl[r].fault)
        => /\ dl[r].status = StatusOK
           /\ dl[r].contentLength = p[2]
           /\ dl[r].wire = p[1]
           /\ dl[r].written = p[1]

C1_Witness ==
    /\ dl[1].pc = "done" /\ ~dl[1].cancelled /\ ~dl[1].fault
    /\ dl[1].query = Param(Itoa(MaxDownloadSize))
    /\ dl[1].wire = MaxDownloadSize

\* The size parameters that are not a valid size: not a number, or a number
\* that is <= 0 or > MaxDownloadSize.
InvalidParam(q) ==
    \/ q.has /\ q.val \in BadParams
    \/ \E p \in SizeParams :
           q = Param(p[2]) /\ (p[1] <= 0 \/ p[1] > MaxDownloadSize)

\* C2: a request with an invalid size parameter never gets the 200 status,
\* a Content-Length or a payload byte, and is answered 400 with an error
\* message when the handler returns.
C2_InvalidSizeRejected ==
    \A r \in Reqs :
        (dl[r].pc # "idle" /\ InvalidParam(dl[r].query))
        => /\ dl[r].status \in {0, StatusBadRequest}
           /\ dl[r].contentLength = <<>>
           /\ dl[r].wire = 0 /\ dl[r].nwrites = 0 /\ dl[r].written = 0
           /\ dl[r].pc \in {"parse", "validate", "done"}
           /\ dl[r].pc = "done" =>
                  dl[r].status = StatusBadRequest /\ dl[r].errBody # ""

C2_Witness ==
    \E r \in Reqs :
        /\ dl[r].pc = "done"
        /\ dl[r].query = Param(Itoa(MaxDownloadSize + 1))
        /\ dl[r].status = StatusBadRequest

C2_WitnessNonNumeric ==
    \E r \in Reqs :
        /\ dl[r].pc = "done"
        /\ dl[r].query = Param(<<"1", "2", "a">>)
        /\ dl[r].status = StatusBadRequest

\* C3: once the context of a streaming download is done, at most one more
\* chunk, of at most DefaultBufferSize bytes, is written; the handler is then
\* past its last write, and it returns with the 200 status and no error body.
C3_CancelStopsWithinOneChunk ==
    \A r \in Reqs :
        (dl[r].cancelled /\ dl[r].status = StatusOK)
        => /\ dl[r].writesAfterCancel <= 1
           /\ dl[r].wire - dl[r].wireAtCancel <= DefaultBufferSize
           /\ dl[r].writesAfterCancel = 1 => dl[r].pc # "write"
           /\ dl[r].pc = "done" =>
                  /\ dl[r].errBody = ""
                  /\ dl[r].outcome \in {"disconnected", "success", "writeError"}

C3_Witness ==
    \E r \in Reqs :
        /\ dl[r].pc = "done" /\ dl[r].outcome = "disconnected"
        /\ dl[r].writesAfterCancel = 1
        /\ dl[r].wire - dl[r].wireAtCancel = DefaultBufferSize
        /\ dl[r].wire < dl[r].size

\* C4: in every state of a download the body bytes written so far are at
\* most the validated size (and none are written before validation).
C4_NeverExceedsSize ==
    \A r \in Reqs :
        IF Streaming(r)
        THEN dl[r].wire <= dl[r].size /\ dl[r].written <= dl[r].size
        ELSE dl[r].wire = 0

C4_Witness ==
    \E r \in Reqs :
        /\ dl[r].fault /\ dl[r].cancelled
        /\ dl[r].wire > dl[r].written /\ dl[r].written > 0
        /\ dl[r].size - dl[r].written < DefaultBufferSize

\* C7: a request with no size parameter, or an empty one, is served as a
\* request for 2097152 bytes: that Content-Length and, without cancellation
\* or write fault, exactly that many body bytes.
C7_DefaultSize ==
    \A r \in Reqs :
        (dl[r].pc # "idle" /\ QueryGet(dl[r].query) = <<>>)
        => /\ dl[r].status \in {0, StatusOK}
           /\ dl[r].status = StatusOK =>
                  dl[r].contentLength = <<"2", "0", "9", "7", "1", "5", "2">>
           /\ (dl[r].pc = "done" /\ ~dl[r].cancelled /\ ~dl[r].fault)
                  => dl[r].status = StatusOK /\ dl[r].wire = 2097152

C7_Witness ==
    /\ dl[1].pc = "done" /\ ~dl[1].cancelled /\ ~dl[1].fault
    /\ dl[1].query = Absent
    /\ dl[1].wire = 2097152 /\ dl[1].nwrites = 64

(***************************************************************************)
(* Properties of one upload.                                               *)
(***************************************************************************)
\* C5: when the handler returns, the answer is 200 with body "ok" exactly
\* when the body was read to its end without a read fault and is no longer
\* than MaxUploadSize; otherwise it is 413.  No other status is ever set.
C5_UploadStatus ==
    /\ up.status \in {0, StatusOK, StatusRequestEntityTooLarge}
    /\ up.pc # "done" => up.status = 0
    /\ up.pc = "done" =>
          IF ~up.faulted /\ up.bodyLen <= MaxUploadSize
          THEN up.status = StatusOK /\ up.body = "ok"
               /\ up.bytesRead = up.bodyLen
          ELSE up.status = StatusRequestEntityTooLarge /\ up.body # "ok"

C5_Witness ==
    /\ up.pc = "done" /\ up.bodyLen = MaxUploadSize
    /\ up.status = StatusOK /\ up.bytesRead = MaxUploadSize

C5_WitnessTooLarge ==
    /\ up.pc = "done" /\ up.bodyLen = MaxUploadSize + 1 /\ ~up.faulted
    /\ up.status = StatusRequestEntityTooLarge

\* C6: in every state of an upload the bytes copied to the discard sink
\* are at most MaxUploadSize; the body itself is read at most one byte
\* further, and once it is found too large it is read no more.
C6_UploadReadBounded ==
    /\ up.bytesRead <= MaxUploadSize
    /\ up.bytesRead <= up.bodyLen
    /\ up.srcRead <= MaxUploadSize + 1
    /\ up.err = "tooLarge" => up.pc \in {"respond", "done"}

C6_Witness ==
    /\ up.pc = "done" /\ up.err = "tooLarge"
    /\ up.bodyLen = MaxUploadSize + CopyBufSize
    /\ up.bytesRead = MaxUploadSize
    /\ up.srcRead < up.bodyLen

(***************************************************************************)
(* Properties of concurrent downloads.                                     *)
(***************************************************************************)
\* A request that was neither cancelled nor hit by a write fault has, when
\* its handler returns, written exactly the bytes it asked for.
OwnByteCount(r) ==
    (dl[r].pc = "done" /\ ~dl[r].cancelled /\ ~dl[r].fault)
    => \E v \in ConcSizes :
           /\ dl[r].query = Param(Itoa(v))
           /\ dl[r].wire = v /\ dl[r].written = v
           /\ dl[r].contentLength = Itoa(v)

\* A step of one handler leaves the state of every other request alone.
OneRequestPerStep ==
    \E r \in Reqs : \A s \in Reqs \ {r} : dl'[s] = dl[s]

\* C10: in every interleaving of several downloads of different sizes, with
\* cancellations and write faults hitting some of them, every step touches
\* the state of one request only, and each request that is not itself
\* cancelled or faulted writes exactly its own byte count.
C10_NoInterference ==
    /\ [](\A r \in Reqs : OwnByteCount(r))
    /\ [][OneRequestPerStep]_vars

C10_Witness ==
    /\ dl[1].pc = "done" /\ dl[1].fault /\ dl[1].wire < dl[1].size
    /\ dl[2].pc = "done" /\ ~dl[2].cancelled /\ ~dl[2].fault
    /\ dl[2].size # dl[1].size
    /\ dl[2].wire = dl[2].size /\ dl[2].size > DefaultBufferSize

(***************************************************************************)
(* Properties of the server lifecycle.                                     *)
(***************************************************************************)
\* C8, as stated: after a termination signal received while serving, no
\* connection is accepted once Shutdown has begun, the shutdown stays within
\* the grace period, and the process exits with status 0, also when an
\* in-flight request does not finish within the grace period.
C8_AsStated ==
    srv.sigWhileServing =>
        /\ srv.lateAccepts = 0
        /\ srv.elapsed <= GraceSeconds
        /\ srv.exited => srv.code = 0

\* C8, amended: after a termination signal received while serving, no
\* connection is accepted once Shutdown has begun and the shutdown stays
\* within the grace period; the process exits with status 0 only with no
\* request in flight, and exits with status 1, at the end of the grace
\* period, whenever a request is cut off.
C8_ShutdownOutcome ==
    srv.sigWhileServing =>
        /\ srv.lateAccepts = 0
        /\ srv.inShutdown => srv.lis = "closed"
        /\ srv.elapsed <= GraceSeconds
        /\ srv.exited =>
              /\ srv.code \in {0, 1}
              /\ srv.code = 0 => srv.active = 0 /\ srv.cutOff = 0
              /\ srv.code = 1 =>
                    srv.cause = "shutdownTimeout" /\ srv.elapsed = GraceSeconds
              /\ srv.cutOff > 0 => srv.code = 1

C8_Witness ==
    /\ srv.sigWhileServing /\ srv.exited
    /\ srv.code = 1 /\ srv.cutOff > 0 /\ srv.completed > 0

\* The edges of Starting -> Serving -> ShuttingDown -> Stopped, with the exit
\* from Starting on a bind failure.
ChainEdges ==
    { <<"Starting", "Serving">>, <<"Serving", "ShuttingDown">>,
      <<"ShuttingDown", "Stopped">>, <<"Starting", "Stopped">> }

\* The same with Serving skipped by a signal received before the bind.
ForwardEdges == ChainEdges \cup { <<"Starting", "ShuttingDown">> }

\* C9, as stated: every change of lifecycle state is an edge of the chain;
\* Stopped is terminal; ShuttingDown is entered by receiving a signal; the
\* process stops with status 1 on a bind failure in Starting or on a
\* shutdown that exceeded the grace period, and with status 0 otherwise.
C9_AsStated ==
    [][ LET a == LifecycleOf(srv)
            b == LifecycleOf(srv')
        IN  /\ a # b => <<a, b>> \in ChainEdges
            /\ a = "Stopped" => srv' = srv
            /\ (a # b /\ b = "ShuttingDown") => srv.stop = 1 /\ srv'.stop = 0
            /\ (a # b /\ b = "Stopped") =>
                  \/ a = "Starting" /\ srv'.cause = "bindFailure"
                        /\ srv'.code = 1
                  \/ a = "ShuttingDown" /\ srv'.cause = "shutdownTimeout"
                        /\ srv'.code = 1
                  \/ a = "ShuttingDown" /\ srv'.cause = "graceful"
                        /\ srv'.code = 0 ]_vars

\* C9, amended: the lifecycle never moves backwards along the chain but may
\* skip Serving (a signal received before the listener is bound); Stopped
\* is terminal; ShuttingDown is entered by receiving a signal; a bind
\* failure, possible until Shutdown has begun, stops the process at once
\* with status 1; otherwise the process stops from ShuttingDown, with status
\* 1 when the grace period was exceeded and status 0 when it was not.
C9_Lifecycle ==
    /\ [][ LET a == LifecycleOf(srv)
                b == LifecycleOf(srv')
            IN  /\ a # b => <<a, b>> \in ForwardEdges
                /\ a = "Stopped" => srv' = srv
                /\ (a # b /\ b = "ShuttingDown") =>
                      srv.stop = 1 /\ srv'.stop = 0
                /\ (a # b /\ b = "Stopped") =>
                      \/ /\ srv'.cause = "bindFailure" /\ srv'.code = 1
                         /\ srv.lis = "init" /\ ~srv.inShutdown
                      \/ /\ a = "ShuttingDown" /\ srv'.code = 1
                         /\ srv'.cause = "shutdownTimeout"
                         /\ srv.elapsed = GraceSeconds
                      \/ /\ a = "ShuttingDown" /\ srv'.code = 0
                         /\ srv'.cause = "graceful"
                         /\ srv.lis # "failed" ]_vars
    /\ [](srv.lis = "failed" => srv.exited /\ srv.code = 1)

C9_Witness ==
    /\ srv.exited /\ srv.code = 0
    /\ ~srv.sigWhileServing /\ srv.lis \in {"init", "closed"}

(***************************************************************************)
(* Properties of the health handler and of getClientIP.                    *)
(***************************************************************************)
\* C11: whatever the method and the headers of a request for /health, the
\* handler sets no status other than 200, has a step to take until it has
\* answered, and has answered 200 with body "healthy" when it returns.
C11_HealthAlwaysOk ==
    /\ hl.status \in {0, StatusOK}
    /\ hl.pc = "log" => ENABLED HealthLog
    /\ hl.pc = "respond" => ENABLED HealthRespond
    /\ hl.pc = "done" => hl.status = StatusOK /\ hl.body = "healthy"

C11_Witness ==
    /\ hl.pc = "done" /\ hl.method = "DELETE" /\ hl.xff = <<" ">>
    /\ hl.status = StatusOK /\ hl.body = "healthy"

\* s without the white space at its two ends.
IsTrimOf(t, s) ==
    \E a \in 1 .. Len(s) + 1 : \E b \in a - 1 .. Len(s) :
        /\ t = SubSeq(s, a, b)
        /\ \A i \in 1 .. a - 1 : s[i] \in WhiteSpace
        /\ \A i \in b + 1 .. Len(s) : s[i] \in WhiteSpace
        /\ t # <<>> => t[1] \notin WhiteSpace /\ t[Len(t)] \notin WhiteSpace

\* e is what precedes the first comma of s, all of s when it has none.
IsFirstEntryOf(e, s) ==
    /\ \A i \in 1 .. Len(e) : e[i] # ","
    /\ \/ e = s
       \/ Len(e) < Len(s) /\ e = SubSeq(s, 1, Len(e)) /\ s[Len(e) + 1] = ","

NoneOf(s, chars) == \A i \in 1 .. Len(s) : s[i] \notin chars

\* h is the host of the address ra = h:port or ra = [h]:port.
IsHostOf(h, ra) ==
    \E p \in {SubSeq(ra, i, Len(ra)) : i \in 1 .. Len(ra) + 1} :
        /\ NoneOf(p, {":", "[", "]"})
        /\ \/ ra = h \o <<":">> \o p /\ NoneOf(h, {":", "[", "]"})
           \/ ra = <<"[">> \o h \o <<"]", ":">> \o p /\ NoneOf(h, {"[", "]"})

Hosts(ra) ==
    {h \in {SubSeq(ra, i, j) : i \in 1 .. Len(ra) + 1, j \in 0 .. Len(ra)} :
        IsHostOf(h, ra)}

\* C14: the resolved client address is the CF-Connecting-IP header when it
\* is not empty; else the trimmed first comma-separated entry of
\* X-Forwarded-For when that header is not empty; else X-Real-IP when it is
\* not empty; else the host of the remote address, or the remote address as
\* it is when it has no host:port form.  The resolution always yields a
\* value and the request is answered.
C14_ClientIPPriority ==
    /\ hl.pc = "log" => ENABLED HealthLog
    /\ hl.pc \in {"respond", "done"} =>
          IF hl.cf # <<>> THEN hl.clientIP = hl.cf
          ELSE IF hl.xff # <<>>
          THEN \E e \in {SubSeq(hl.xff, 1, n) : n \in 0 .. Len(hl.xff)} :
                   IsFirstEntryOf(e, hl.xff) /\ IsTrimOf(hl.clientIP, e)
          ELSE IF hl.xri # <<>> THEN hl.clientIP = hl.xri
          ELSE IF Hosts(hl.remoteAddr) # {}
          THEN hl.clientIP \in Hosts(hl.remoteAddr)
          ELSE hl.clientIP = hl.remoteAddr

C14_Witness ==
    /\ hl.pc = "done" /\ hl.cf = <<>>
    /\ hl.xff = <<" ">> \o AddrB \o <<"\t", ",">> \o AddrC
    /\ hl.xri = AddrD
    /\ hl.clientIP = AddrB

C14_WitnessRemote ==
    /\ hl.pc = "done" /\ hl.cf = <<>> /\ hl.xff = <<>> /\ hl.xri = <<>>
    /\ hl.remoteAddr = <<"[", ":", ":", "1", "]", ":", "8", "0">>
    /\ hl.clientIP = <<":", ":", "1">>

(***************************************************************************)
(* The upload limit of the README.                                         *)
(***************************************************************************)
\* C13: an upload whose body is longer than 10 MB is answered 413 and
\* never 200 "ok".
C13_TenMegabyteLimit ==
    (up.pc = "done" /\ up.bodyLen > ReadmeUploadLimit)
    => up.status = StatusRequestEntityTooLarge /\ up.body # "ok"

(***************************************************************************)
(* Properties of the streaming loop.                                       *)
(***************************************************************************)
\* The chunks a download of size bytes takes.
CeilChunks(size) == (size + DefaultBufferSize - 1) \div DefaultBufferSize

\* C15: every write of a download starts at the offset the counter holds,
\* which is the number of bytes written before it, and is not empty, so
\* offsets strictly increase; the counter never decreases and changes only
\* by the length of the chunk just written.
C15_OrderedChunks ==
    [][ \A r \in Reqs :
          /\ dl'[r].nwrites = dl[r].nwrites + 1 =>
                /\ dl[r].wire = dl[r].written
                /\ dl'[r].toWrite > 0
                /\ dl'[r].wire = dl[r].wire + dl'[r].toWrite
          /\ dl'[r].written >= dl[r].written
          /\ dl'[r].written # dl[r].written =>
                /\ dl[r].toWrite > 0
                /\ dl'[r].written = dl[r].written + dl[r].toWrite
                /\ dl'[r].written = dl[r].wire ]_vars

C15_Witness ==
    \E r \in Reqs :
        /\ dl[r].pc = "loop" /\ dl[r].nwrites = 3
        /\ dl[r].written = 2 * DefaultBufferSize + 1
        /\ dl[r].wire = dl[r].written

\* C16: a download that runs to its end makes exactly
\* ceil(size / DefaultBufferSize) writes; every write is of DefaultBufferSize
\* bytes unless it is the one that reaches size, which is of
\* size - DefaultBufferSize * (writes - 1) bytes, between 1 and
\* DefaultBufferSize.
C16_ChunkCount ==
    /\ [](\A r \in Reqs :
            (dl[r].pc = "done" /\ dl[r].outcome = "success") =>
                /\ dl[r].nwrites = CeilChunks(dl[r].size)
                /\ dl[r].toWrite =
                       dl[r].size - DefaultBufferSize * (dl[r].nwrites - 1)
                /\ dl[r].toWrite > 0 /\ dl[r].toWrite <= DefaultBufferSize
                /\ dl[r].wire = dl[r].size)
    /\ [][ \A r \in Reqs :
             dl'[r].nwrites = dl[r].nwrites + 1 =>
                 \/ dl'[r].toWrite = DefaultBufferSize
                 \/ /\ dl'[r].wire = dl[r].size
                    /\ dl'[r].toWrite > 0
                    /\ dl'[r].toWrite < DefaultBufferSize ]_vars

C16_Witness ==
    \E r \in Reqs :
        /\ dl[r].pc = "done" /\ dl[r].outcome = "success"
        /\ dl[r].size = DefaultBufferSize + 1
        /\ dl[r].nwrites = 2 /\ dl[r].toWrite = 1

C16_WitnessMultiple ==
    \E r \in Reqs :
        /\ dl[r].pc = "done" /\ dl[r].outcome = "success"
        /\ dl[r].size = 2 * DefaultBufferSize
        /\ dl[r].nwrites = 2 /\ dl[r].toWrite = DefaultBufferSize

\* C17: a failed write ends the handler: it has returned, with the 200
\* status and no error body, the counter holds the chunks written before
\* the failed one and nothing of it, the flushes and polls are those of the
\* earlier chunks, and nothing of the request changes afterwards.
C17_WriteFaultStops ==
    /\ [](\A r \in Reqs :
            dl[r].fault =>
                /\ dl[r].pc = "done" /\ dl[r].outcome = "writeError"
                /\ dl[r].status = StatusOK /\ dl[r].errBody = ""
                /\ dl[r].written = DefaultBufferSize * dl[r].nwrites
                /\ dl[r].written <= dl[r].wire
                /\ dl[r].wire < dl[r].written + dl[r].toWrite
                /\ dl[r].nflushes = dl[r].nwrites
                /\ dl[r].nchecks = dl[r].nwrites + 1)
    /\ [][ \A r \in Reqs : dl[r].fault => dl'[r] = dl[r] ]_vars

C17_Witness ==
    \E r \in Reqs :
        /\ dl[r].fault /\ dl[r].pc = "done"
        /\ dl[r].nwrites = 2 /\ dl[r].wire > dl[r].written

\* C18: whenever the handler is at the loop test, the poll or a write, and
\* when it advances the counter, every chunk written so far has been
\* flushed; a chunk is flushed before the counter advances over it.
C18_FlushAfterEachChunk ==
    \A r \in Reqs :
        (Streaming(r) /\ ~dl[r].fault) =>
            /\ dl[r].pc \in {"loop", "select", "write"} =>
                  /\ dl[r].flushed = dl[r].wire
                  /\ dl[r].nflushes = dl[r].nwrites
                  /\ dl[r].written = dl[r].wire
            /\ dl[r].pc = "flush" =>
                  /\ dl[r].nflushes = dl[r].nwrites - 1
                  /\ dl[r].flushed = dl[r].wire - dl[r].toWrite
                  /\ dl[r].written = dl[r].flushed
            /\ dl[r].pc = "advance" =>
                  /\ dl[r].flushed = dl[r].wire
                  /\ dl[r].nflushes = dl[r].nwrites
                  /\ dl[r].written = dl[r].wire - dl[r].toWrite
            /\ (dl[r].pc = "done" /\ dl[r].outcome = "success") =>
                  dl[r].flushed = dl[r].size

C18_Witness ==
    \E r \in Reqs :
        /\ dl[r].pc = "select" /\ dl[r].nwrites = 2
        /\ dl[r].flushed = 2 * DefaultBufferSize
        /\ dl[r].wire = dl[r].flushed

\* C19: the loop of a download starts at most ceil(size / DefaultBufferSize)
\* iterations, the poll of the context can always be taken at once, and
\* every invocation of the handler returns.
C19_HandlerTerminates ==
    /\ [](\A r \in Reqs :
            /\ Streaming(r) => dl[r].iters <= CeilChunks(dl[r].size)
            /\ dl[r].nchecks <= dl[r].iters
            /\ dl[r].pc = "select" => ENABLED CheckCancel(r))
    /\ (dl[1].pc = "parse") ~> (dl[1].pc = "done")

C19_Witness ==
    /\ dl[1].pc = "done" /\ dl[1].outcome = "disconnected"
    /\ dl[1].size = MaxDownloadSize
    /\ dl[1].iters = CeilChunks(MaxDownloadSize)

(***************************************************************************)
(* The listen port.                                                        *)
(***************************************************************************)
\* C12: a serving listener is bound to the port PORT names when PORT is
\* set, and to 8080 when it is not.
C12_PortFromEnv ==
    srv.lis = "serving" =>
        srv.addr = (IF env.set THEN env.port ELSE 8080)

(***************************************************************************)
(* The signal and the listener goroutine.                                  *)
(***************************************************************************)
\* main has left the receive of line 174 for the shutdown.
EnteredShutdown == srv.main \in {"shutdown", "poll", "select", "exited"}

\* C20 as stated: a signal sent while the process is starting or serving
\* always brings main into the shutdown.
C20_AsStated == srv.signalled ~> EnteredShutdown

\* C20: a signal that was sent stays in the channel until main receives
\* it, main's receive can be taken whenever the channel holds a signal, the
\* "failed to start" exit is taken only by a bind that failed and never by
\* the listener's server-closed return, and a signal brings main into the
\* shutdown unless a failed bind ends the process first.
C20_SignalNeverLost ==
    /\ []((srv.signalled /\ ~srv.exited /\ srv.main \in {"start", "wait"})
              => srv.stop = 1)
    /\ []((srv.stop = 1 /\ srv.main = "wait" /\ ~srv.exited)
              => ENABLED MainRecv)
    /\ [](srv.cause = "bindFailure" =>
              srv.lis = "failed" /\ ~srv.inShutdown)
    /\ [](srv.lis = "closed" => srv.inShutdown /\ srv.cause # "bindFailure")
    /\ srv.signalled ~>
          (EnteredShutdown \/ (srv.exited /\ srv.cause = "bindFailure"))

C20_Witness ==
    /\ srv.signalled /\ ~srv.sigWhileServing
    /\ srv.lis = "closed" /\ srv.addr = 0
    /\ srv.exited /\ srv.code = 0 /\ srv.cause = "graceful"

=============================================================================
